---- MODULE Spec2Model ----
(***************************************************************************)
(* Hexapod leg control library: the analytical inverse/forward kinematics  *)
(* solver (ik_solver.cpp) and the PCA9685 servo driver (servo_driver.c).   *)
(*                                                                         *)
(* A C double is modelled as a fixed-point integer: lengths in 1/LenScale  *)
(* of a linear unit, radians in 1/RadScale, degrees in 1/DegScale, and     *)
(* cosines and sines in 1/TrigScale, and the law-of-cosines quotients in   *)
(* 1/QuotScale.  Every arithmetic step rounds to the nearest representable *)
(* value, as floating-point arithmetic does (at a much finer resolution).  *)
(* A double that is not a number is the record NaN.                        *)
(***************************************************************************)
EXTENDS Integers, Sequences, FiniteSets, TLC

\* ------------------------------------------------------------------------
\* Fixed-point representation of double
\* ------------------------------------------------------------------------
LenScale == 100
RadScale == 10000
DegScale == 1000
TrigScale == 10000
QuotScale == 100000000

\* <cmath> M_PI, in 1/RadScale rad
M_PI == 31416
HalfPi == M_PI \div 2
TwoPi == 2 * M_PI

\* F(v) with v computed once: the value is bound by a quantifier, so that
\* an argument used several times is not evaluated again at each use
Let(v, F(_)) == CHOOSE r \in { F(x) : x \in {v} } : TRUE
Let2(v, w, F(_, _)) == CHOOSE r \in { F(x, y) : x \in {v}, y \in {w} } : TRUE

Abs(a) == IF a < 0 THEN -a ELSE a
Sgn(a) == IF a < 0 THEN -1 ELSE 1

\* a / b rounded to the nearest integer (b > 0)
DivR(a, b) == (2 * a + b) \div (2 * b)

\* product of a value with a TrigScale-scaled factor
MulT(a, c) == DivR(a * c, TrigScale)

\* sqrt(): the integer nearest to the square root of n >= 0
RECURSIVE SqrtSearch(_, _, _)
SqrtSearch(n, lo, hi) ==
    IF hi - lo <= 1
    THEN IF n - lo * lo <= hi * hi - n THEN lo ELSE hi
    ELSE Let((lo + hi) \div 2,
             LAMBDA mid : IF mid * mid <= n THEN SqrtSearch(n, mid, hi)
                                            ELSE SqrtSearch(n, lo, mid))
Sqrt(n) == Let(n, LAMBDA m : SqrtSearch(m, 0, 46340))

\* cos() and sin() on [-pi/4, pi/4] by their Taylor polynomials
CosPolyOf(x2) ==
    LET c3 == TrigScale - DivR(x2, 30)
        c2 == TrigScale - MulT(DivR(x2, 12), c3)
    IN  TrigScale - MulT(DivR(x2, 2), c2)
CosPoly(x) == Let(DivR(x * x, RadScale), CosPolyOf)
SinPolyOf(x, x2) ==
    LET s3 == TrigScale - DivR(x2, 42)
        s2 == TrigScale - MulT(DivR(x2, 20), s3)
        s1 == TrigScale - MulT(DivR(x2, 6), s2)
    IN  MulT(x, s1)
SinPoly(x) == Let(DivR(x * x, RadScale), LAMBDA x2 : SinPolyOf(x, x2))

\* cos(x), x in 1/RadScale rad, result in 1/TrigScale
CosReduced(b) ==
    IF 4 * b <= M_PI THEN CosPoly(b)
    ELSE IF 4 * b <= 3 * M_PI THEN Let(b - HalfPi, LAMBDA c : -SinPoly(c))
    ELSE Let(M_PI - b, LAMBDA c : -CosPoly(c))
Cos(x) ==
    Let(Abs(x) % TwoPi, LAMBDA a : Let(IF a > M_PI THEN TwoPi - a ELSE a, CosReduced))
\* sin(x)
Sin(x) == Cos(x - HalfPi)

\* atan2(y, x) for y >= 0, x >= 0: the angle in [0, pi/2] at which the
\* direction (cos, sin) is parallel to (x, y)
RECURSIVE AtanSearch(_, _, _, _)
AtanSearch(y, x, lo, hi) ==
    LET F(t) == y * Cos(t) - x * Sin(t)
    IN  IF hi - lo <= 1
        THEN IF Abs(F(lo)) <= Abs(F(hi)) THEN lo ELSE hi
        ELSE Let((lo + hi) \div 2,
                 LAMBDA mid : IF F(mid) > 0 THEN AtanSearch(y, x, mid, hi)
                                            ELSE AtanSearch(y, x, lo, mid))
\* atan2(y, x), result in (-pi, pi]
Atan2Of(y, x) ==
    IF x = 0 /\ y = 0 THEN 0
    ELSE Let(AtanSearch(Abs(y), Abs(x), 0, HalfPi),
             LAMBDA t : IF x >= 0 THEN (IF y >= 0 THEN t ELSE -t)
                        ELSE (IF y >= 0 THEN M_PI - t ELSE t - M_PI))
Atan2(y, x) == Let2(y, x, Atan2Of)
\* acos(c), c in [-QuotScale, QuotScale], result in [0, pi]: the angle of
\* the direction (c, sqrt(1 - c^2))
Acos(c) ==
    Let(c, LAMBDA d : Atan2(DivR(Sqrt(QuotScale - d) * Sqrt(QuotScale + d), 1000),
                            DivR(d, 1000)))

\* ------------------------------------------------------------------------
\* A double that may be NaN or infinite (IEEE-754 quotients and sqrt)
\* ------------------------------------------------------------------------
Num(v) == [k |-> "num", v |-> v]
NaN == [k |-> "nan", v |-> 0]
Inf(s) == [k |-> "inf", v |-> s]

\* a < b on doubles: every comparison with NaN is false
LessD(a, b) ==
    IF a.k = "nan" \/ b.k = "nan" THEN FALSE
    ELSE IF a.k = "inf" THEN a.v < 0 /\ ~(b.k = "inf" /\ b.v < 0)
    ELSE IF b.k = "inf" THEN b.v > 0
    ELSE a.v < b.v
\* std::min(a, b) is (b < a) ? b : a;  std::max(a, b) is (a < b) ? b : a
std_min(a, b) == IF LessD(b, a) THEN b ELSE a
std_max(a, b) == IF LessD(a, b) THEN b ELSE a

\* |num| / den in 1/QuotScale, by long division, digit by digit
RECURSIVE LongDiv(_, _, _, _)
LongDiv(acc, rem, den, scale) ==
    IF scale = 1
    THEN acc + (IF 2 * rem >= den THEN 1 ELSE 0)
    ELSE Let2(10 * acc + (10 * rem) \div den, (10 * rem) % den,
              LAMBDA a, r : LongDiv(a, r, den, scale \div 10))
\* the double num / den of two doubles given as integers: 0/0 is NaN, x/0 is
\* +-infinity
QuotOf(num, den) ==
    IF den = 0 THEN (IF num = 0 THEN NaN ELSE Inf(Sgn(num)))
    ELSE Num(Sgn(num) * Sgn(den) *
             LongDiv(Abs(num) \div Abs(den), Abs(num) % Abs(den), Abs(den), QuotScale))
Quot(num, den) == Let2(num, den, QuotOf)

\* ------------------------------------------------------------------------
\* ik_solver.cpp
\* ------------------------------------------------------------------------
Position3D(x, y, z) == [x |-> x, y |-> y, z |-> z]
JointAngles(coxa, femur, tibia) == [coxa |-> coxa, femur |-> femur, tibia |-> tibia]
LegDimensions(c, f, t) == [coxa_length |-> c, femur_length |-> f, tibia_length |-> t]

\* degrees * M_PI / 180.0  (180 * DegScale / M_PI reduced to 7500 / 1309)
deg_to_rad(degrees) == DivR(degrees * (M_PI \div 24), (180 * DegScale) \div 24)
\* radians * 180.0 / M_PI
rad_to_deg(radians) == DivR(radians * ((180 * DegScale) \div 24), M_PI \div 24)

\* mutant: the upper bound of the servo range is not applied
clamp_angle_lower_only(angle_deg) == IF angle_deg < 0 THEN 0 ELSE angle_deg

\* std::max(min_deg, std::min(max_deg, angle_deg)) with the default range
clamp_angle(angle_deg) ==
    LET min_deg == 0
        max_deg == 180 * DegScale
        m == IF angle_deg < max_deg THEN angle_deg ELSE max_deg
    IN  IF min_deg < m THEN m ELSE min_deg

\* locals of solve_ik
coxa_angle_rad(target) == Atan2(target.y, target.x)
xy_distance(target) == Sqrt(target.x * target.x + target.y * target.y)
horizontal_reach(target, dimensions) == xy_distance(target) - dimensions.coxa_length
vertical_reach(target) == target.z
reach_distance(target, dimensions) ==
    Let2(horizontal_reach(target, dimensions), vertical_reach(target),
         LAMBDA h, v : Sqrt(h * h + v * v))
max_reach(dimensions) == dimensions.femur_length + dimensions.tibia_length
min_reach(dimensions) == Abs(dimensions.femur_length - dimensions.tibia_length)

\* mutant: a target exactly at max_reach is rejected
reach_check_strict(reach, dimensions) ==
    IF reach >= max_reach(dimensions) THEN "Target position is too far (unreachable)"
    ELSE IF reach < min_reach(dimensions) THEN "Target position is too close (unreachable)"
    ELSE ""
\* mutant: the too-close check is missing
reach_check_far_only(reach, dimensions) ==
    IF reach > max_reach(dimensions) THEN "Target position is too far (unreachable)"
    ELSE ""

\* the reachability check: the exception solve_ik throws, or "" when it passes
reach_check(reach, dimensions) ==
    IF reach > max_reach(dimensions) THEN "Target position is too far (unreachable)"
    ELSE IF reach < min_reach(dimensions) THEN "Target position is too close (unreachable)"
    ELSE ""

\* the law-of-cosines quotients before the clamp
cos_tibia(reach, dimensions) ==
    Let(reach, LAMBDA r :
        Quot(dimensions.femur_length * dimensions.femur_length
             + dimensions.tibia_length * dimensions.tibia_length - r * r,
             2 * dimensions.femur_length * dimensions.tibia_length))
cos_femur_offset(reach, dimensions) ==
    Let(reach, LAMBDA r :
        Quot(dimensions.femur_length * dimensions.femur_length + r * r
             - dimensions.tibia_length * dimensions.tibia_length,
             2 * dimensions.femur_length * r))
\* std::max(-1.0, std::min(1.0, c))
clamp_cos(c) == Let(c, LAMBDA q : std_max(Num(-QuotScale), std_min(Num(QuotScale), q)))

\* the three angles in degrees, servo convention, before clamp_angle
angles_of_reach(target, dimensions, reach) ==
    LET tibia_angle_rad == Acos(clamp_cos(cos_tibia(reach, dimensions)).v)
        reach_angle == Atan2(vertical_reach(target), horizontal_reach(target, dimensions))
        femur_offset_angle == Acos(clamp_cos(cos_femur_offset(reach, dimensions)).v)
        femur_angle_rad == reach_angle + femur_offset_angle
    IN  JointAngles(rad_to_deg(coxa_angle_rad(target)) + 90 * DegScale,
                    rad_to_deg(femur_angle_rad) + 90 * DegScale,
                    180 * DegScale - rad_to_deg(tibia_angle_rad))
raw_angles(target, dimensions) ==
    Let(reach_distance(target, dimensions),
        LAMBDA reach : angles_of_reach(target, dimensions, reach))

\* outcome of a call: a returned value or a thrown C++ exception
Returned(v) == [status |-> "returned", exception |-> "", what |-> "", value |-> v]
Thrown(e, w, v) == [status |-> "thrown", exception |-> e, what |-> w, value |-> v]
NotCalled(v) == [status |-> "none", exception |-> "", what |-> "", value |-> v]
NoAngles == JointAngles(0, 0, 0)

solve_ik(target, dimensions) ==
    Let(reach_check(reach_distance(target, dimensions), dimensions), LAMBDA what :
        IF what # ""
        THEN Thrown("std::runtime_error", what, NoAngles)
        ELSE Let(raw_angles(target, dimensions), LAMBDA raw :
                 Returned(JointAngles(clamp_angle(raw.coxa), clamp_angle(raw.femur),
                                      clamp_angle(raw.tibia)))))

\* mutant: the tibia's absolute angle is taken without the - M_PI
solve_fk_no_pi(angles, dimensions) ==
    LET coxa_rad == deg_to_rad(angles.coxa - 90 * DegScale)
        femur_rad == deg_to_rad(angles.femur - 90 * DegScale)
        tibia_interior_rad == deg_to_rad(180 * DegScale - angles.tibia)
        coxa_x == MulT(dimensions.coxa_length, Cos(coxa_rad))
        coxa_y == MulT(dimensions.coxa_length, Sin(coxa_rad))
        femur_horizontal == MulT(dimensions.femur_length, Cos(femur_rad))
        femur_vertical == MulT(dimensions.femur_length, Sin(femur_rad))
        tibia_abs_angle == femur_rad + tibia_interior_rad
        tibia_horizontal == MulT(dimensions.tibia_length, Cos(tibia_abs_angle))
        tibia_vertical == MulT(dimensions.tibia_length, Sin(tibia_abs_angle))
        total_horizontal == femur_horizontal + tibia_horizontal
    IN  Returned(Position3D(coxa_x + MulT(total_horizontal, Cos(coxa_rad)),
                            coxa_y + MulT(total_horizontal, Sin(coxa_rad)),
                            femur_vertical + tibia_vertical))

solve_fk(angles, dimensions) ==
    LET coxa_rad == deg_to_rad(angles.coxa - 90 * DegScale)
        femur_rad == deg_to_rad(angles.femur - 90 * DegScale)
        tibia_interior_rad == deg_to_rad(180 * DegScale - angles.tibia)
        coxa_x == MulT(dimensions.coxa_length, Cos(coxa_rad))
        coxa_y == MulT(dimensions.coxa_length, Sin(coxa_rad))
        femur_horizontal == MulT(dimensions.femur_length, Cos(femur_rad))
        femur_vertical == MulT(dimensions.femur_length, Sin(femur_rad))
        tibia_abs_angle == femur_rad + tibia_interior_rad - M_PI
        tibia_horizontal == MulT(dimensions.tibia_length, Cos(tibia_abs_angle))
        tibia_vertical == MulT(dimensions.tibia_length, Sin(tibia_abs_angle))
        total_horizontal == femur_horizontal + tibia_horizontal
    IN  Returned(Position3D(coxa_x + MulT(total_horizontal, Cos(coxa_rad)),
                            coxa_y + MulT(total_horizontal, Sin(coxa_rad)),
                            femur_vertical + tibia_vertical))

\* mutant: the handler catches another exception type, so std::runtime_error
\* leaves is_reachable
is_reachable_wrong_catch(target, dimensions) ==
    LET r == solve_ik(target, dimensions)
    IN  IF r.status = "returned" THEN Returned(TRUE)
        ELSE IF r.exception = "std::logic_error" THEN Returned(FALSE)
        ELSE Thrown(r.exception, r.what, FALSE)

\* try { solve_ik(...); return true; } catch (const std::runtime_error&) { return false; }
is_reachable(target, dimensions) ==
    LET r == solve_ik(target, dimensions)
    IN  IF r.status = "returned" THEN Returned(TRUE)
        ELSE IF r.exception = "std::runtime_error" THEN Returned(FALSE)
        ELSE Thrown(r.exception, r.what, FALSE)

\* mutant: the height is added under the root instead of subtracted
max_reach_at_height_plus(z_height, dimensions) ==
    LET max_leg_length == dimensions.femur_length + dimensions.tibia_length
    IN  Returned(Num(Sqrt(max_leg_length * max_leg_length + z_height * z_height)
                     + dimensions.coxa_length))

\* sqrt of a negative double is NaN, and NaN + coxa_length is NaN
max_reach_at_height(z_height, dimensions) ==
    LET max_leg_length == dimensions.femur_length + dimensions.tibia_length
        radicand == max_leg_length * max_leg_length - z_height * z_height
    IN  IF radicand < 0 THEN Returned(NaN)
        ELSE Returned(Num(Sqrt(radicand) + dimensions.coxa_length))

\* ------------------------------------------------------------------------
\* Callers of the geometry functions.  The functions are pure; the state is
\* the caller's view of the latest call chain: the arguments it passed and
\* the outcome it got.  solve_fk may be applied to the angles solve_ik has
\* just returned, and max_reach_at_height may be asked again for another
\* height of the same leg.
\* ------------------------------------------------------------------------
VARIABLES op, target, dimensions, ik, fk, reachable, z_prev, mrh_prev, z_height, mrh,
          i2c_handle, lifecycle, sop, sret, count, pwm_freq, pulse_us, pwm_value,
          pulse_prev, reg_prev

gvars == <<op, target, dimensions, ik, fk, reachable, z_prev, mrh_prev, z_height, mrh>>
svars == <<i2c_handle, lifecycle, sop, sret, count, pwm_freq, pulse_us, pwm_value,
           pulse_prev, reg_prev>>
vars == <<op, target, dimensions, ik, fk, reachable, z_prev, mrh_prev, z_height, mrh,
          i2c_handle, lifecycle, sop, sret, count, pwm_freq, pulse_us, pwm_value,
          pulse_prev, reg_prev>>

\* input grids, in whole linear units times LenScale
MaxX == 14
MaxY == 3
MaxZ == 3
MaxH == 11
StepX == 10 * LenScale
StepY == 40 * LenScale
StepZ == 30 * LenScale
StepH == 10 * LenScale
Targets == { Position3D(StepX * i, StepY * j, StepZ * k) :
                i \in -MaxX..MaxX, j \in -MaxY..MaxY, k \in -MaxZ..MaxZ }
\* the legs of the documented scenarios: symmetric, the concrete scenario,
\* and an asymmetric one with a nonzero min_reach
Legs == { LegDimensions(30 * LenScale, 50 * LenScale, 50 * LenScale),
          LegDimensions(20 * LenScale, 60 * LenScale, 80 * LenScale),
          LegDimensions(20 * LenScale, 70 * LenScale, 30 * LenScale) }
\* heights: a coarse grid, and the heights one resolution step from zero
Heights == { StepH * i : i \in -MaxH..MaxH } \cup { -1, 1 }
\* joint angles a caller may pass to solve_fk directly
ServoAngles == { JointAngles(45 * DegScale * a, 45 * DegScale * b, 45 * DegScale * c) :
                    a \in 0..4, b \in 0..4, c \in 0..4 }

NoPosition == Position3D(0, 0, 0)
NoLeg == LegDimensions(0, 0, 0)

GeometryInit ==
    /\ op = "none"
    /\ target = NoPosition
    /\ dimensions = NoLeg
    /\ ik = NotCalled(NoAngles)
    /\ fk = NotCalled(NoPosition)
    /\ reachable = NotCalled(FALSE)
    /\ z_prev = 0
    /\ mrh_prev = NotCalled(NaN)
    /\ z_height = 0
    /\ mrh = NotCalled(NaN)

\* a call chain starts when the caller holds no result (op = "none")
CallSolveIk(t, d) ==
    /\ op = "none"
    /\ op' = "solve_ik"
    /\ target' = t
    /\ dimensions' = d
    /\ ik' = solve_ik(t, d)
    /\ fk' = NotCalled(NoPosition)
    /\ reachable' = NotCalled(FALSE)
    /\ z_prev' = 0 /\ mrh_prev' = NotCalled(NaN)
    /\ z_height' = 0 /\ mrh' = NotCalled(NaN)

\* solve_fk on the angles the preceding solve_ik returned
CallSolveFkOfIk ==
    /\ op = "solve_ik"
    /\ ik.status = "returned"
    /\ op' = "solve_fk"
    /\ fk' = solve_fk(ik.value, dimensions)
    /\ UNCHANGED <<target, dimensions, ik, reachable, z_prev, mrh_prev, z_height, mrh>>

\* solve_fk on angles of the caller's own
CallSolveFk(a, d) ==
    /\ op = "none"
    /\ op' = "solve_fk"
    /\ target' = NoPosition
    /\ dimensions' = d
    /\ ik' = NotCalled(a)
    /\ fk' = solve_fk(a, d)
    /\ reachable' = NotCalled(FALSE)
    /\ z_prev' = 0 /\ mrh_prev' = NotCalled(NaN)
    /\ z_height' = 0 /\ mrh' = NotCalled(NaN)

CallIsReachable(t, d) ==
    /\ op = "none"
    /\ op' = "is_reachable"
    /\ target' = t
    /\ dimensions' = d
    /\ reachable' = is_reachable(t, d)
    /\ ik' = NotCalled(NoAngles)
    /\ fk' = NotCalled(NoPosition)
    /\ z_prev' = 0 /\ mrh_prev' = NotCalled(NaN)
    /\ z_height' = 0 /\ mrh' = NotCalled(NaN)

CallMaxReachAtHeight(z, d) ==
    /\ op = "none"
    /\ op' = "max_reach_at_height"
    /\ dimensions' = d
    /\ z_height' = z
    /\ mrh' = max_reach_at_height(z, d)
    /\ UNCHANGED <<target, ik, fk, reachable, z_prev, mrh_prev>>

\* max_reach_at_height asked again for another height of the same leg; the
\* caller keeps the previous answer
CallMaxReachAtHeightAgain(z) ==
    /\ op = "max_reach_at_height"
    /\ mrh_prev.status = "none"
    /\ z_prev' = z_height
    /\ mrh_prev' = mrh
    /\ z_height' = z
    /\ mrh' = max_reach_at_height(z, dimensions)
    /\ UNCHANGED <<op, target, dimensions, ik, fk, reachable>>

\* the caller drops the results of the chain
Finish ==
    /\ op # "none"
    /\ op' = "none"
    /\ target' = NoPosition
    /\ dimensions' = NoLeg
    /\ ik' = NotCalled(NoAngles)
    /\ fk' = NotCalled(NoPosition)
    /\ reachable' = NotCalled(FALSE)
    /\ z_prev' = 0 /\ mrh_prev' = NotCalled(NaN)
    /\ z_height' = 0 /\ mrh' = NotCalled(NaN)

\* ------------------------------------------------------------------------
\* servo_driver.c
\* ------------------------------------------------------------------------
PWM_RESOLUTION == 4096
UINT16_MAX == 65535

\* (uint16_t)d for a double d >= 0 with an integral value: defined when d
\* fits; otherwise the conversion is undefined, and builds either truncate
\* it modulo 2^16 or saturate it
to_uint16(d) ==
    IF d <= UINT16_MAX THEN {d} ELSE {d % (UINT16_MAX + 1), UINT16_MAX}

\* clamp to [SERVO_ANGLE_MIN, SERVO_ANGLE_MAX], interpolate, round
angle_to_pulse(angle_deg, min_pulse, max_pulse) ==
    LET a == IF angle_deg < 0 THEN 0
             ELSE IF angle_deg > 180 * DegScale THEN 180 * DegScale
             ELSE angle_deg
    IN  min_pulse + DivR(a * (max_pulse - min_pulse), 180 * DegScale)

\* round(pulse_us / (1000000.0 / pwm_freq) * PWM_RESOLUTION), which is
\* pulse_us * pwm_freq * 64 / 15625 (PWM_RESOLUTION / 1000000 reduced by 64)
duty_register(pulse, freq) ==
    LET pf == pulse * freq
        mul == PWM_RESOLUTION \div 64
        den == 1000000 \div 64
    IN  (pf \div den) * mul + DivR((pf % den) * mul, den)

\* the values pulse_to_register can return
pulse_to_register(pulse, freq) ==
    { IF register_value > PWM_RESOLUTION - 1 THEN PWM_RESOLUTION - 1 ELSE register_value :
        register_value \in to_uint16(duty_register(pulse, freq)) }

\* return value of servo_set_angle and of servo_off
channel_check(handle, channel) ==
    IF handle < 0 THEN -1
    ELSE IF channel > 15 THEN -1
    ELSE 0

ServoInit ==
    /\ i2c_handle = -1
    /\ lifecycle = "none"
    /\ sop = "none"
    /\ sret = 0
    /\ count = 0
    /\ pwm_freq = 0
    /\ pulse_us = 0
    /\ pwm_value = 0
    /\ pulse_prev = 0
    /\ reg_prev = -1

\* the stub always succeeds and stores the fake handle
servo_driver_init(freq) ==
    /\ i2c_handle' = 1
    /\ lifecycle' = "init"
    /\ sop' = "servo_driver_init"
    /\ sret' = 0
    /\ pwm_freq' = freq
    /\ UNCHANGED <<count, pulse_us, pwm_value, pulse_prev, reg_prev>>

servo_set_angle(channel, angle_deg, min_pulse, max_pulse, freq) ==
    /\ sop' = "servo_set_angle"
    /\ sret' = channel_check(i2c_handle, channel)
    /\ IF channel_check(i2c_handle, channel) = 0
       THEN /\ pulse_us' = angle_to_pulse(angle_deg, min_pulse, max_pulse)
            /\ pwm_value' \in pulse_to_register(pulse_us', freq)
            /\ pwm_freq' = freq
       ELSE UNCHANGED <<pwm_freq, pulse_us, pwm_value>>
    /\ pulse_prev' = 0
    /\ reg_prev' = -1
    /\ UNCHANGED <<i2c_handle, lifecycle, count>>

\* index of the first servo whose servo_set_angle fails, or count + 1
RECURSIVE first_failure(_, _, _)
first_failure(handle, channels, i) ==
    IF i > Len(channels) THEN i
    ELSE IF channel_check(handle, channels[i]) # 0 THEN i
    ELSE first_failure(handle, channels, i + 1)

servo_set_multiple(channels, angles, min_pulse, max_pulse, freq) ==
    LET k == first_failure(i2c_handle, channels, 1)
    IN  /\ sop' = "servo_set_multiple"
        /\ sret' = IF k <= Len(channels) THEN -1 ELSE 0
        /\ IF k > 1
           THEN /\ pulse_us' = angle_to_pulse(angles[k - 1], min_pulse, max_pulse)
                /\ pwm_value' \in pulse_to_register(pulse_us', freq)
                /\ pwm_freq' = freq
           ELSE UNCHANGED <<pwm_freq, pulse_us, pwm_value>>
        /\ pulse_prev' = 0
        /\ reg_prev' = -1
        /\ count' = Len(channels)
        /\ UNCHANGED <<i2c_handle, lifecycle>>

servo_off(channel) ==
    /\ sop' = "servo_off"
    /\ sret' = channel_check(i2c_handle, channel)
    /\ pulse_prev' = 0
    /\ reg_prev' = -1
    /\ UNCHANGED <<i2c_handle, lifecycle, count, pwm_freq, pulse_us, pwm_value>>

\* calls servo_off for channels 0..15, ignores the results, returns 0
servo_off_all ==
    /\ sop' = "servo_off_all"
    /\ sret' = 0
    /\ pulse_prev' = 0
    /\ reg_prev' = -1
    /\ UNCHANGED <<i2c_handle, lifecycle, count, pwm_freq, pulse_us, pwm_value>>

\* void: sret is left at 0
servo_driver_close ==
    /\ i2c_handle' = IF i2c_handle >= 0 THEN -1 ELSE i2c_handle
    /\ lifecycle' = "close"
    /\ sop' = "servo_driver_close"
    /\ sret' = 0
    /\ pulse_prev' = 0
    /\ reg_prev' = -1
    /\ UNCHANGED <<count, pwm_freq, pulse_us, pwm_value>>

servo_driver_is_initialized ==
    /\ sop' = "servo_driver_is_initialized"
    /\ sret' = IF i2c_handle >= 0 THEN 1 ELSE 0
    /\ pulse_prev' = 0
    /\ reg_prev' = -1
    /\ UNCHANGED <<i2c_handle, lifecycle, count, pwm_freq, pulse_us, pwm_value>>

\* pulse_to_register called directly; the caller keeps the previous answer
\* for the same frequency
CallPulseToRegister(pulse, freq) ==
    /\ sop' = "pulse_to_register"
    /\ pwm_freq' = freq
    /\ pulse_us' = pulse
    /\ pwm_value' \in pulse_to_register(pulse, freq)
    /\ sret' = 0
    /\ IF sop = "pulse_to_register" /\ pwm_freq = freq
       THEN pulse_prev' = pulse_us /\ reg_prev' = pwm_value
       ELSE pulse_prev' = 0 /\ reg_prev' = -1
    /\ UNCHANGED <<i2c_handle, lifecycle, count>>

\* inputs of the servo driver
MaxPulse == 16
Pulses == { p \in { 4000 * i : i \in 0..MaxPulse } \cup { 1500, 15999 } :
              p <= UINT16_MAX }
Freqs == { 50, 1000 }
Channels == { 0, 15, 16 }
CommandAngles == { -10 * DegScale, 0, 90 * DegScale, 200 * DegScale }
PulseRanges == { <<500, 2500>>, <<1000, 2000>> }
ChannelLists == { <<>>, <<0>>, <<0, 15>>, <<0, 16, 1>> }
AnglesFor(channels) == [i \in 1..Len(channels) |-> 45 * DegScale * i]

Init == GeometryInit /\ ServoInit

Next ==
    \/ \E t \in Targets, d \in Legs : CallSolveIk(t, d) /\ UNCHANGED svars
    \/ CallSolveFkOfIk /\ UNCHANGED svars
    \/ \E a \in ServoAngles, d \in Legs : CallSolveFk(a, d) /\ UNCHANGED svars
    \/ \E t \in Targets, d \in Legs : CallIsReachable(t, d) /\ UNCHANGED svars
    \/ \E z \in Heights, d \in Legs : CallMaxReachAtHeight(z, d) /\ UNCHANGED svars
    \/ \E z \in Heights : CallMaxReachAtHeightAgain(z) /\ UNCHANGED svars
    \/ Finish /\ UNCHANGED svars

Spec == Init /\ [][Next]_vars

NextServo ==
    \/ \E f \in Freqs : servo_driver_init(f) /\ UNCHANGED gvars
    \/ \E c \in Channels, a \in CommandAngles, r \in PulseRanges, f \in Freqs :
          servo_set_angle(c, a, r[1], r[2], f) /\ UNCHANGED gvars
    \/ \E cs \in ChannelLists, r \in PulseRanges, f \in Freqs :
          servo_set_multiple(cs, AnglesFor(cs), r[1], r[2], f) /\ UNCHANGED gvars
    \/ \E c \in Channels : servo_off(c) /\ UNCHANGED gvars
    \/ servo_off_all /\ UNCHANGED gvars
    \/ servo_driver_close /\ UNCHANGED gvars
    \/ servo_driver_is_initialized /\ UNCHANGED gvars
    \/ \E p \in Pulses, f \in Freqs : CallPulseToRegister(p, f) /\ UNCHANGED gvars

SpecServo == Init /\ [][NextServo]_vars

\* ------------------------------------------------------------------------
\* Properties
\* ------------------------------------------------------------------------
TooFar == "Target position is too far (unreachable)"
TooClose == "Target position is too close (unreachable)"
AngleInRange(a) == 0 <= a /\ a <= 180 * DegScale

\* the reach distance as the specification defines it:
\* sqrt((sqrt(x^2 + y^2) - coxa_length)^2 + z^2)
SpecReach ==
    LET h == Sqrt(target.x * target.x + target.y * target.y) - dimensions.coxa_length
    IN  Sqrt(h * h + target.z * target.z)
Extension == dimensions.femur_length + dimensions.tibia_length
Fold == Abs(dimensions.femur_length - dimensions.tibia_length)

\* C1: solve_ik's outcome is decided by the reach distance alone: it fails
\* as too far exactly when the reach distance exceeds femur + tibia, as too
\* close exactly when it is below |femur - tibia|, and succeeds otherwise,
\* so a target exactly on either boundary succeeds.
C1_ReachDecidesOutcome ==
    op = "solve_ik" =>
        /\ (ik.status = "thrown" /\ ik.what = TooFar) <=> SpecReach > Extension
        /\ (ik.status = "thrown" /\ ik.what = TooClose) <=>
               (SpecReach <= Extension /\ SpecReach < Fold)
        /\ ik.status = "returned" <=> (Fold <= SpecReach /\ SpecReach <= Extension)
\* a target exactly at max_reach, solved
C1_Witness ==
    op = "solve_ik" /\ ik.status = "returned" /\ SpecReach = Extension /\ Fold < Extension

\* C2: whenever solve_ik returns angles, each of the three lies in
\* [0, 180] degrees.
C2_AnglesInServoRange ==
    (op = "solve_ik" /\ ik.status = "returned") =>
        AngleInRange(ik.value.coxa) /\ AngleInRange(ik.value.femur)
        /\ AngleInRange(ik.value.tibia)
\* a target behind the coxa (x < 0) whose solved coxa angle was above 180
C2_Witness ==
    /\ op = "solve_ik" /\ ik.status = "returned" /\ target.x < 0
    /\ raw_angles(target, dimensions).coxa > 180 * DegScale
    /\ ik.value.coxa = 180 * DegScale

\* tolerance of the round trip: the fixed-point resolution of the model
\* stands for the 1e-3 of double arithmetic
RoundTripTol == LenScale \div 20
Unclamped == raw_angles(target, dimensions) = ik.value
C4_IsReachableIffIkSucceeds ==
    op = "is_reachable" =>
        /\ reachable.status = "returned"
        /\ reachable.value <=> (Fold <= SpecReach /\ SpecReach <= Extension)
        /\ reachable.value <=> (solve_ik(target, dimensions).status = "returned")
\* is_reachable answered false for a target that is too close
C4_Witness ==
    /\ op = "is_reachable" /\ reachable.status = "returned" /\ ~reachable.value
    /\ SpecReach < Fold

\* C5: max_reach_at_height yields an explicit domain error whenever
\* |z_height| > femur + tibia, not a number computed from the square root
\* of a negative.
C5_DomainErrorAboveExtension ==
    (op = "max_reach_at_height" /\ Abs(z_height) > Extension) =>
        ~(mrh.status = "returned" /\ mrh.value.k \in {"num", "nan", "inf"})

InExtension(z) == Abs(z) <= Extension
HavePair ==
    /\ op = "max_reach_at_height" /\ mrh_prev.status = "returned"
    /\ InExtension(z_prev) /\ InExtension(z_height)
AtZero ==
    (op = "max_reach_at_height" /\ z_height = 0) =>
        mrh.value = Num(Extension + dimensions.coxa_length)
\* C6 as stated: max_reach_at_height is strictly decreasing in |z_height|
\* over 0 <= |z_height| <= femur + tibia, depends only on |z_height|, and at
\* z_height = 0 equals femur + tibia + coxa.
C6_StrictlyDecreasing ==
    /\ HavePair =>
        /\ Abs(z_prev) < Abs(z_height) => mrh_prev.value.v > mrh.value.v
        /\ Abs(z_prev) = Abs(z_height) => mrh_prev.value = mrh.value
    /\ AtZero
\* C6 amended: max_reach_at_height is non-increasing in |z_height| over that
\* range (two heights closer than the arithmetic resolves give the same
\* reach), depends only on |z_height|, and at z_height = 0 equals
\* femur + tibia + coxa.
C6_NonIncreasing ==
    /\ HavePair =>
        /\ mrh_prev.value.k = "num" /\ mrh.value.k = "num"
        /\ Abs(z_prev) < Abs(z_height) => mrh_prev.value.v >= mrh.value.v
        /\ Abs(z_prev) = Abs(z_height) => mrh_prev.value = mrh.value
    /\ AtZero
\* two heights of opposite sign in range, the larger with the smaller reach
C6_Witness ==
    /\ HavePair /\ z_prev < 0 /\ 0 < z_height /\ Abs(z_prev) < Abs(z_height)
    /\ mrh_prev.value.v > mrh.value.v

\* C7: every failure of a geometry operation reaches the caller as a
\* returned value; no call ends by leaving the function abnormally.
C7_FailuresAreReturned ==
    /\ ik.status # "thrown"
    /\ fk.status # "thrown"
    /\ reachable.status # "thrown"
    /\ mrh.status # "thrown"

QuotInUnitRange(q) == q.k = "num" /\ -QuotScale <= q.v /\ q.v <= QuotScale /\ clamp_cos(q) = q
\* numerators and denominators of the two quotients, in exact arithmetic
TibiaNum ==
    dimensions.femur_length * dimensions.femur_length
    + dimensions.tibia_length * dimensions.tibia_length - SpecReach * SpecReach
TibiaDen == 2 * dimensions.femur_length * dimensions.tibia_length
FemurNum ==
    dimensions.femur_length * dimensions.femur_length + SpecReach * SpecReach
    - dimensions.tibia_length * dimensions.tibia_length
FemurDen == 2 * dimensions.femur_length * SpecReach
QuotientsValid ==
    /\ TibiaDen > 0 /\ Abs(TibiaNum) <= TibiaDen
    /\ FemurDen > 0 /\ Abs(FemurNum) <= FemurDen
    /\ QuotInUnitRange(cos_tibia(reach_distance(target, dimensions), dimensions))
    /\ QuotInUnitRange(cos_femur_offset(reach_distance(target, dimensions), dimensions))
\* C8 as stated: for every reach distance that passes the reachability
\* check, both law-of-cosines quotients are well defined and lie in [-1, 1],
\* so the clamp before acos changes nothing.
C8_QuotientsAlwaysValid ==
    (op = "solve_ik" /\ ik.status = "returned") => QuotientsValid
\* C8 amended: the same for every reach distance greater than zero that
\* passes the check; at reach distance 0, which passes when femur = tibia,
\* the second quotient is 0/0.
C8_QuotientsValidForPositiveReach ==
    (op = "solve_ik" /\ ik.status = "returned" /\ SpecReach > 0) => QuotientsValid
\* a solved target on the inner boundary of an asymmetric leg, where the
\* tibia quotient is exactly 1
C8_Witness ==
    /\ op = "solve_ik" /\ ik.status = "returned" /\ SpecReach > 0
    /\ SpecReach = Fold
    /\ cos_tibia(reach_distance(target, dimensions), dimensions) = Num(QuotScale)

\* C9: every servo command issued while the driver is not initialized
\* returns -1 (servo_set_angle, servo_off, servo_set_multiple with
\* count >= 1, servo_off_all), and servo_driver_is_initialized returns 1
\* exactly when the most recent of init and close was an init.
C9_CommandsFailWhenUninitialized ==
    /\ (lifecycle # "init" /\ sop \in {"servo_set_angle", "servo_off", "servo_off_all"})
           => sret = -1
    /\ (lifecycle # "init" /\ sop = "servo_set_multiple" /\ count >= 1) => sret = -1
    /\ sop = "servo_driver_is_initialized" => (sret = 1 <=> lifecycle = "init")

\* C10: pulse_to_register returns a value in 0..4095, non-decreasing in
\* pulse_us for a fixed pwm_freq, and saturates at 4095 whenever the duty
\* cycle times 4096 exceeds 4095.
C10_RegisterSaturates ==
    sop = "pulse_to_register" =>
        /\ 0 <= pwm_value /\ pwm_value <= 4095
        /\ duty_register(pulse_us, pwm_freq) > 4095 => pwm_value = 4095
        /\ (reg_prev >= 0 /\ pulse_prev <= pulse_us) => reg_prev <= pwm_value

====
